---- MODULE Spec2Model ----
(***************************************************************************)
(* DoclingRemoteComponent.process_files                                    *)
(* (src/backend/base/langflow/components/docling/docling_remote.py).       *)
(*                                                                         *)
(* The main thread dispatches one _convert_document call per input that    *)
(* has a path to a ThreadPoolExecutor of max_concurrency workers, then     *)
(* awaits the futures in submission order and appends their results to     *)
(* processed_data.  Each _convert_document call submits a job to the       *)
(* server, polls its status and fetches its result.  The server is the     *)
(* environment: every response it can give is an input chosen with \E.     *)
(***************************************************************************)
EXTENDS Integers, Sequences, FiniteSets, TLC

\* ---------------------------------------------------------------- bounds
\* Longest input batch (file_list).
MaxFiles == 2
\* Largest value of the max_concurrency input.
MaxConcurrency == 2
\* Most poll responses per job that report a non-terminal status (the code
\* itself puts no cap on them).
MaxPending == 1

\* ------------------------------------------------------ program constants
MAX_500_RETRIES == 5
retry_status_code == 500

\* ----------------------------------------------------------------- values
\* file.path: None is 0, the path of the i-th file is i.
NoPath == 0
\* The return values of _convert_document: None or Data(data={...}).
None == [kind |-> "None"]
Data(doc, file_path) == [kind |-> "Data", doc |-> doc, file_path |-> file_path]
\* A future that has no result yet.
Unset == [kind |-> "Unset"]

\* Exceptions a pipeline can end with.
NoExc == "NoExc"
\* The except clause of the collecting loop.
CaughtErrors == {"HTTPStatusError", "RequestError", "KeyError", "ValueError"}

\* Messages of self.log inside _convert_document.
NoLog == "NoLog"
LogTooMany == "The status requests got a http response too many times."
LogNoJson == "No JSON DoclingDocument found in the result."
LogInvalid == "Error validating the document."

\* task_status values; a key the body lacks is Missing.
Missing == "missing"
Terminal == {"success", "failure"}
NonTerminal == {"pending"}
Statuses == NonTerminal \cup Terminal
\* A parsed task body (response.json()); task_id 0 stands for a missing key.
TaskBody(id, status) == [ok |-> TRUE, task_id |-> id, task_status |-> status]
\* A body that is not JSON.
BadJson == [ok |-> FALSE, task_id |-> 0, task_status |-> Missing]
\* The task local before the submission response is parsed.
NoTask == [ok |-> FALSE, task_id |-> 0, task_status |-> Missing]

\* Status codes the server answers with.
StatusCodes == {200, 500, 502}
VARIABLES
    file_list,       \* the input batch: file_list[i] is file i's path or NoPath
    max_concurrency, \* the component's max_concurrency input
    main,            \* main thread: "body", "raising", "returned", "raised"
    k,               \* next index of the dispatching loop (line 151)
    j,               \* next index into futures of the collecting loop (line 158)
    futures,         \* the futures list: input indexes in submission order
    processed_data,  \* the collated results
    origin,          \* history: origin[n] is the input that appended entry n
    error,           \* the exception process_files propagates
    mlog,            \* TRUE once "Error occurred" is logged (line 168)
    pc,              \* per input: "idle" (not handed to the pool), "queued",
                     \* "submit" (the job is posted: submission in flight),
                     \* "poll" (sleeping and polling: poll in flight),
                     \* "fetch" (result request in flight), "done"
    task,            \* per pipeline: the task local
    http_failures,   \* per pipeline: the http_failures local
    waits,           \* per pipeline: non-terminal poll responses so far
    mixed,           \* history: a response at or below the threshold came after one above it
    post_status,     \* per pipeline: status code of the answer to the post (0: none yet)
    ret,             \* per future: its result
    exc,             \* per future: its exception
    plog             \* per pipeline: what _convert_document logged

vars == <<file_list, max_concurrency, main, k, j, futures, processed_data, origin,
          error, mlog, pc, task, http_failures, waits, mixed, post_status, ret, exc, plog>>

mainVars == <<main, k, j, futures, processed_data, origin, error, mlog>>
inputVars == <<file_list, max_concurrency>>

N == Len(file_list)
Files == 1..N

\* Input batches: every mix of files with and without a path.
Batches == UNION {[1..n -> BOOLEAN] : n \in 0..MaxFiles}

NoError == [index |-> 0, type |-> NoExc]

Init ==
    /\ \E b \in Batches :
         file_list = [i \in DOMAIN b |-> IF b[i] THEN i ELSE NoPath]
    /\ max_concurrency \in 1..MaxConcurrency
    /\ main = "body"
    /\ k = 1
    /\ j = 1
    /\ futures = <<>>
    /\ processed_data = <<>>
    /\ origin = <<>>
    /\ error = NoError
    /\ mlog = FALSE
    /\ pc = [i \in Files |-> "idle"]
    /\ task = [i \in Files |-> NoTask]
    /\ http_failures = [i \in Files |-> 0]
    /\ waits = [i \in Files |-> 0]
    /\ mixed = [i \in Files |-> FALSE]
    /\ post_status = [i \in Files |-> 0]
    /\ ret = [i \in Files |-> Unset]
    /\ exc = [i \in Files |-> NoExc]
    /\ plog = [i \in Files |-> NoLog]

\* ------------------------------------------------------- the worker pool
\* Pipelines a worker is executing (ThreadPoolExecutor, line 149).
Running == {i \in Files : pc[i] \in {"submit", "poll", "fetch"}}
\* Futures submitted to the pool that are not done yet.
Unfinished == {i \in Files : pc[i] \in {"queued", "submit", "poll", "fetch"}}
\* Mutant: the pool starts a thread for every work item.
WorkerAlwaysFree == TRUE
\* Mutant: the pool keeps one worker fewer than max_workers.
WorkerFreeOffByOne == Cardinality(Running) < max_concurrency - 1
\* A worker thread is idle or can still be created (max_workers, line 149).
WorkerFree == Cardinality(Running) < max_concurrency
\* Mutant: the pool is shut down with wait=False.
PoolNotAwaited == TRUE
\* ThreadPoolExecutor.__exit__ is shutdown(wait=True): it returns when every
\* submitted work item has run.
PoolDrained == Unfinished = {}

\* Mutant: the test for a missing path is left out.
HasPathUnchecked(file) == TRUE
\* The test of line 152, negated: the file is handed to the pool.
HasPath(file) == file # NoPath

\* Mutant: an input without a path is skipped without appending None.
DispatchSkipsSilently ==
    /\ main = "body"
    /\ k <= N
    /\ IF HasPath(file_list[k])
         THEN /\ futures' = Append(futures, k)
              /\ pc' = [pc EXCEPT ![k] = "queued"]
         ELSE UNCHANGED <<futures, pc>>
    /\ k' = k + 1
    /\ UNCHANGED <<main, j, processed_data, origin, error, mlog, inputVars,
                   task, http_failures, waits, mixed, post_status, ret, exc, plog>>

\* Lines 151-156, one iteration: an input without a path gets None appended,
\* any other input is submitted to the executor.
Dispatch ==
    /\ main = "body"
    /\ k <= N
    /\ IF HasPath(file_list[k])
         THEN /\ futures' = Append(futures, k)
              /\ pc' = [pc EXCEPT ![k] = "queued"]
              /\ UNCHANGED <<processed_data, origin>>
         ELSE /\ processed_data' = Append(processed_data, None)
              /\ origin' = Append(origin, k)
              /\ UNCHANGED <<futures, pc>>
    /\ k' = k + 1
    /\ UNCHANGED <<main, j, error, mlog, inputVars,
                   task, http_failures, waits, mixed, post_status, ret, exc, plog>>

\* ------------------------------------------------------ _convert_document
\* The call of pipeline i ends: the future gets result r or exception e, the
\* message l is logged, and the call's locals are gone with its frame.
Finish(i, r, e, l) ==
    /\ pc' = [pc EXCEPT ![i] = "done"]
    /\ ret' = [ret EXCEPT ![i] = r]
    /\ exc' = [exc EXCEPT ![i] = e]
    /\ plog' = [plog EXCEPT ![i] = l]
    /\ task' = [task EXCEPT ![i] = NoTask]
    /\ http_failures' = [http_failures EXCEPT ![i] = 0]
    /\ waits' = [waits EXCEPT ![i] = 0]
    /\ mixed' = [mixed EXCEPT ![i] = FALSE]
    /\ post_status' = [post_status EXCEPT ![i] = 0]

\* The call raises e (an exception nothing in _convert_document catches).
Raise(i, e) == Finish(i, Unset, e, NoLog)

\* A worker takes the oldest queued work item (the pool's queue is FIFO) and
\* the call begins (lines 102-108): file_path.read_bytes() either fails,
\* ending the call before anything is sent, or the job is posted.
Start(i) ==
    /\ pc[i] = "queued"
    /\ \A q \in Files : pc[q] = "queued" => i <= q
    /\ WorkerFree
    /\ \/ /\ pc' = [pc EXCEPT ![i] = "submit"]
          /\ UNCHANGED <<task, http_failures, waits, mixed, post_status, ret, exc, plog>>
       \/ Raise(i, "OSError")
    /\ UNCHANGED <<mainVars, inputVars>>

\* Mutant: a failure that is logged is raised instead of returning None.
ReturnRaisesLogged(i, r, l) ==
    IF l = NoLog THEN Finish(i, r, NoExc, l) ELSE Finish(i, Unset, "ValueError", l)
\* The call returns r after logging l (lines 121, 132, 136, 139).
Return(i, r, l) == Finish(i, r, NoExc, l)

\* The body has both keys the loop reads (lines 114, 116, 126).
IsTask(t) == t.task_status # Missing /\ t.task_id # 0

\* Mutant: the loop is never entered.
KeepsPollingNever(t) == FALSE
\* The while condition of line 114.
KeepsPolling(t) == t.task_status \notin Terminal

\* Mutant: the loop is a do-while: it polls once before testing the status.
AfterTaskPollsFirst(i, t) ==
    IF ~IsTask(t)
      THEN /\ Raise(i, "KeyError")
      ELSE /\ pc' = [pc EXCEPT ![i] = IF pc[i] = "submit" \/ KeepsPolling(t)
                                       THEN "poll" ELSE "fetch"]
           /\ task' = [task EXCEPT ![i] = t]
           /\ UNCHANGED <<ret, exc, plog>>

\* The head of the loop with the task local just set to t (lines 114-116,
\* 126): a missing "task_status" or "task_id" key is a KeyError; a terminal
\* status leaves the loop for the result request, any other status sleeps
\* and polls.
AfterTask(i, t) ==
    IF ~IsTask(t)
      THEN /\ Raise(i, "KeyError")
      ELSE /\ pc' = [pc EXCEPT ![i] = IF KeepsPolling(t) THEN "poll" ELSE "fetch"]
           /\ task' = [task EXCEPT ![i] = t]
           /\ UNCHANGED <<ret, exc, plog>>

\* The bodies the server can send for job i where a task is expected.
TaskBodies(i) ==
    {BadJson} \cup {TaskBody(id, s) : id \in {0, i}, s \in Statuses \cup {Missing}}

\* Mutant: raise_for_status() is left out.
NeverRaisesForStatus(code) == FALSE
\* httpx.Response.raise_for_status raises on a non-2xx code.
RaisesForStatus(code) == ~(code \in 200..299)

\* Lines 108-114: the answer to the posted job arrives and is parsed.
Submit(i) ==
    /\ pc[i] = "submit"
    /\ \/ \* client.post fails (line 108)
          /\ Raise(i, "RequestError")
       \/ \E code \in StatusCodes :
            IF RaisesForStatus(code) THEN Raise(i, "HTTPStatusError")
            ELSE \E body \in TaskBodies(i) :
                   IF body = BadJson THEN Raise(i, "ValueError")
                   ELSE /\ AfterTask(i, body)
                        /\ IsTask(body) =>
                             /\ http_failures' = [http_failures EXCEPT ![i] = 0]
                             /\ post_status' = [post_status EXCEPT ![i] = code]
                             /\ UNCHANGED <<waits, mixed>>
    /\ UNCHANGED <<mainVars, inputVars>>

\* Mutants: the budget test is off by one, either way.
BudgetExceededLate(n) == n > MAX_500_RETRIES + 1
BudgetExceededEarly(n) == n >= MAX_500_RETRIES
\* Line 119: the retry budget is used up.
BudgetExceeded(n) == n > MAX_500_RETRIES
\* Line 117: the response counts against the budget.
IsRetryStatus(code) == code > retry_status_code

\* Mutant: the body of a response above the threshold is parsed into task
\* before the status code is looked at.
RetryParsesBody(i) ==
    /\ http_failures' = [http_failures EXCEPT ![i] = @ + 1]
    /\ task' = [task EXCEPT ![i] = NoTask]
    /\ UNCHANGED <<pc, waits, mixed, post_status, ret, exc, plog>>
\* Lines 118-122 within the budget: count the response and poll again,
\* leaving task as it is.
Retry(i) ==
    /\ http_failures' = [http_failures EXCEPT ![i] = @ + 1]
    /\ UNCHANGED <<pc, task, waits, mixed, post_status, ret, exc, plog>>

\* Mutant: a response at or below the threshold resets the counter.
RefreshResets(i, body) ==
    /\ KeepsPolling(body) => waits[i] < MaxPending
    /\ waits' = [waits EXCEPT ![i] = IF KeepsPolling(body) THEN @ + 1 ELSE @]
    /\ mixed' = [mixed EXCEPT ![i] = @ \/ http_failures[i] > 0]
    /\ http_failures' = [http_failures EXCEPT ![i] = 0]
    /\ UNCHANGED post_status
\* Mutant: every poll that finds the job unfinished counts against the budget.
RefreshCounts(i, body) ==
    /\ KeepsPolling(body) => waits[i] < MaxPending
    /\ waits' = [waits EXCEPT ![i] = IF KeepsPolling(body) THEN @ + 1 ELSE @]
    /\ mixed' = [mixed EXCEPT ![i] = @ \/ http_failures[i] > 0]
    /\ http_failures' = [http_failures EXCEPT ![i] =
                           IF KeepsPolling(body) /\ @ < MAX_500_RETRIES THEN @ + 1 ELSE @]
    /\ UNCHANGED post_status
\* Line 124 with a task in the body: task is replaced (by AfterTask) and
\* http_failures is left alone.
Refresh(i, body) ==
    /\ KeepsPolling(body) => waits[i] < MaxPending
    /\ waits' = [waits EXCEPT ![i] = IF KeepsPolling(body) THEN @ + 1 ELSE @]
    /\ mixed' = [mixed EXCEPT ![i] = @ \/ http_failures[i] > 0]
    /\ UNCHANGED <<http_failures, post_status>>

\* Lines 115-124, one iteration: sleep, poll, classify the response.
Poll(i) ==
    /\ pc[i] = "poll"
    /\ \/ \* client.get fails (line 116)
          Raise(i, "RequestError")
       \/ \E code \in StatusCodes :
            IF IsRetryStatus(code)
              THEN IF BudgetExceeded(http_failures[i] + 1)
                     THEN Return(i, None, LogTooMany)
                     ELSE Retry(i)
              ELSE \E body \in TaskBodies(i) :
                     IF body = BadJson THEN Raise(i, "ValueError")
                     ELSE /\ AfterTask(i, body)
                          /\ IsTask(body) => Refresh(i, body)
    /\ UNCHANGED <<mainVars, inputVars>>

\* The structured document of job id in a result body, valid or not.
JsonContent(id, valid) == [job |-> id, valid |-> valid]
NoContent == [job |-> 0, valid |-> FALSE]
\* A result body: JSON or not, with or without "document", whose
\* "json_content" is absent, null or a blob.
ResultBody(ok, document, json_content, blob) ==
    [ok |-> ok, document |-> document, json_content |-> json_content, blob |-> blob]
ResultBodies(id) ==
    {ResultBody(FALSE, FALSE, "absent", NoContent),
     ResultBody(TRUE, FALSE, "absent", NoContent),
     ResultBody(TRUE, TRUE, "absent", NoContent),
     ResultBody(TRUE, TRUE, "null", NoContent)}
    \cup {ResultBody(TRUE, TRUE, "blob", JsonContent(id, v)) : v \in BOOLEAN}
\* DoclingDocument.model_validate accepts the blob (line 135).
ModelValidate(blob) == blob.valid
\* The test of line 130.
HasNoJson(body) == body.json_content \in {"absent", "null"}

\* Mutant: every record gets the path of the first file of the batch.
RecordOfFirstFile(i, blob) == Data(blob, file_list[1])
\* Line 136: the record for input i with the validated document.
Record(i, blob) == Data(blob, file_list[i])

\* Lines 126-139: fetch the result of the task and build the outcome.
Fetch(i) ==
    /\ pc[i] = "fetch"
    /\ \/ \* client.get fails (line 126)
          Raise(i, "RequestError")
       \/ \E code \in StatusCodes :
            IF RaisesForStatus(code) THEN Raise(i, "HTTPStatusError")
            ELSE \E body \in ResultBodies(task[i].task_id) :
                   IF ~body.ok THEN Raise(i, "ValueError")
                   ELSE IF ~body.document THEN Raise(i, "KeyError")
                   ELSE IF HasNoJson(body) THEN Return(i, None, LogNoJson)
                   ELSE IF ModelValidate(body.blob)
                          THEN Return(i, Record(i, body.blob), NoLog)
                          ELSE Return(i, None, LogInvalid)
    /\ UNCHANGED <<mainVars, inputVars>>

\* ------------------------------------------------- collecting the results
\* Mutant: the except clause logs and goes on with None instead of raising.
CollectSwallows ==
    /\ main = "body"
    /\ k > N
    /\ j <= Len(futures)
    /\ pc[futures[j]] = "done"
    /\ LET i == futures[j] IN
         /\ processed_data' = Append(processed_data, IF exc[i] = NoExc THEN ret[i] ELSE None)
         /\ origin' = Append(origin, i)
         /\ j' = j + 1
         /\ mlog' = (mlog \/ exc[i] \in CaughtErrors)
         /\ UNCHANGED <<main, error>>
    /\ UNCHANGED <<k, futures, inputVars,
                   pc, task, http_failures, waits, mixed, post_status, ret, exc, plog>>

\* Mutant: the exception of any future that has failed is raised at once,
\* whatever its place in the list.
CollectRaisesEagerly ==
    /\ main = "body"
    /\ k > N
    /\ j <= Len(futures)
    /\ \/ \E n \in j..Len(futures) :
            /\ pc[futures[n]] = "done"
            /\ exc[futures[n]] # NoExc
            /\ main' = "raising"
            /\ error' = [index |-> futures[n], type |-> exc[futures[n]]]
            /\ mlog' = (exc[futures[n]] \in CaughtErrors)
            /\ UNCHANGED <<processed_data, origin, j>>
       \/ /\ pc[futures[j]] = "done"
          /\ exc[futures[j]] = NoExc
          /\ processed_data' = Append(processed_data, ret[futures[j]])
          /\ origin' = Append(origin, futures[j])
          /\ j' = j + 1
          /\ UNCHANGED <<main, error, mlog>>
    /\ UNCHANGED <<k, futures, inputVars,
                   pc, task, http_failures, waits, mixed, post_status, ret, exc, plog>>

\* Mutant: the futures are taken as they complete, not in submission order.
CollectAsCompleted ==
    /\ main = "body"
    /\ k > N
    /\ j <= Len(futures)
    /\ \E n \in 1..Len(futures) :
         LET i == futures[n] IN
           /\ pc[i] = "done"
           /\ \A m \in 1..Len(origin) : origin[m] # i
           /\ IF exc[i] = NoExc
                THEN /\ processed_data' = Append(processed_data, ret[i])
                     /\ origin' = Append(origin, i)
                     /\ j' = j + 1
                     /\ UNCHANGED <<main, error, mlog>>
                ELSE /\ main' = "raising"
                     /\ error' = [index |-> i, type |-> exc[i]]
                     /\ mlog' = (exc[i] \in CaughtErrors)
                     /\ UNCHANGED <<processed_data, origin, j>>
    /\ UNCHANGED <<k, futures, inputVars,
                   pc, task, http_failures, waits, mixed, post_status, ret, exc, plog>>

\* Lines 158-169, one iteration: await the next future in submission order;
\* append its result, or log and re-raise its exception.
Collect ==
    /\ main = "body"
    /\ k > N
    /\ j <= Len(futures)
    /\ pc[futures[j]] = "done"
    /\ LET i == futures[j] IN
         IF exc[i] = NoExc
           THEN /\ processed_data' = Append(processed_data, ret[i])
                /\ origin' = Append(origin, i)
                /\ j' = j + 1
                /\ UNCHANGED <<main, error, mlog>>
           ELSE /\ main' = "raising"
                /\ error' = [index |-> i, type |-> exc[i]]
                /\ mlog' = (exc[i] \in CaughtErrors)
                /\ UNCHANGED <<processed_data, origin, j>>
    /\ UNCHANGED <<k, futures, inputVars,
                   pc, task, http_failures, waits, mixed, post_status, ret, exc, plog>>

\* Lines 149, 171: both loops are over, the with block is left (the pool is
\* shut down with wait=True) and process_files returns.
ReturnBatch ==
    /\ main = "body"
    /\ k > N
    /\ j > Len(futures)
    /\ PoolDrained
    /\ main' = "returned"
    /\ UNCHANGED <<k, j, futures, processed_data, origin, error, mlog, inputVars,
                   pc, task, http_failures, waits, mixed, post_status, ret, exc, plog>>

\* Lines 149, 169: the exception leaves the with block once the pool is
\* shut down with wait=True, and reaches the caller.
Unwind ==
    /\ main = "raising"
    /\ PoolDrained
    /\ main' = "raised"
    /\ UNCHANGED <<k, j, futures, processed_data, origin, error, mlog, inputVars,
                   pc, task, http_failures, waits, mixed, post_status, ret, exc, plog>>

Next ==
    \/ Dispatch
    \/ \E i \in Files : Start(i)
    \/ \E i \in Files : Submit(i)
    \/ \E i \in Files : Poll(i)
    \/ \E i \in Files : Fetch(i)
    \/ Collect
    \/ ReturnBatch
    \/ Unwind

Spec == Init /\ [][Next]_vars

\* The steps of the main thread and of the pipeline of input i.
MainStep == Dispatch \/ Collect \/ ReturnBatch \/ Unwind
PipelineStep(i) == i \in Files /\ (Start(i) \/ Submit(i) \/ Poll(i) \/ Fetch(i))
\* The default of the max_concurrency input (line 71).
DefaultConcurrency == 2
\* The batches of Init with a pool of at most the default size.
InitFair == Init /\ max_concurrency <= DefaultConcurrency
\* Fair scheduling: the main thread and every worker thread keep running
\* while they can (a worker with a queued item to take, a request that gets
\* its answer or its failure).
SpecFair ==
    /\ InitFair
    /\ [][Next]_vars
    /\ WF_vars(MainStep)
    /\ \A i \in 1..MaxFiles : WF_vars(PipelineStep(i))

\* ================================================================ claims
\* The outcome of input i: absent when it has no path, otherwise what its
\* pipeline returned.
Outcome(i) == IF file_list[i] = NoPath THEN None ELSE ret[i]
Failed == {i \in Files : exc[i] # NoExc}
RecoveredLogs == {LogTooMany, LogNoJson, LogInvalid}
\* The step gives pipeline i up for having used its retry budget.
GivesUp(i) == plog[i] = NoLog /\ plog'[i] = LogTooMany

\* C1: when process_files returns normally, entry i of processed_data is the
\* outcome of input i (None without a path, else its pipeline's result),
\* whatever the mix of inputs and the completion order.
C1_PositionalAlignment ==
    main = "returned" =>
        /\ Len(processed_data) = N
        /\ \A i \in Files : processed_data[i] = Outcome(i)

\* C2: when process_files returns normally, processed_data has exactly N
\* entries, one appended for each input and none appended twice.
C2_OneEntryPerInput ==
    /\ Len(origin) = Len(processed_data)
    /\ \A m, n \in 1..Len(origin) : origin[m] = origin[n] => m = n
    /\ main = "returned" =>
         /\ Len(processed_data) = N
         /\ {origin[n] : n \in 1..Len(origin)} = Files
C2_Witness ==
    /\ main = "returned"
    /\ N = 2
    /\ file_list[1] # NoPath
    /\ file_list[2] = NoPath

\* C3: an input without a path gets a None entry as soon as it is dispatched
\* and no pipeline: it is never queued, and no submission, poll or result
\* request is ever in flight for it.
C3_NoPathNoPipeline ==
    \A i \in Files : file_list[i] = NoPath =>
        /\ pc[i] = "idle"
        /\ \A n \in 1..Len(futures) : futures[n] # i
        /\ ret[i] = Unset /\ exc[i] = NoExc /\ plog[i] = NoLog
        /\ k > i => \E n \in 1..Len(origin) : origin[n] = i /\ processed_data[n] = None
C3_Witness ==
    /\ main = "returned"
    /\ N = 2
    /\ file_list[1] = NoPath
    /\ ret[2].kind = "Data"

\* C4: never more than max_concurrency pipelines execute at once (so never
\* more than that many polls in flight), and a pipeline runs only when fewer
\* than max_concurrency of the pipelines submitted before it are unfinished.
C4_ConcurrencyLimit ==
    /\ Cardinality(Running) <= max_concurrency
    /\ Cardinality({i \in Files : pc[i] = "poll"}) <= max_concurrency
    /\ \A i \in Running :
         Cardinality({q \in Unfinished : q < i}) < max_concurrency
C4_Witness ==
    /\ Cardinality({i \in Files : pc[i] = "poll"}) = max_concurrency
    /\ \E i \in Files : pc[i] = "queued"

\* C5: the retry counter never exceeds MAX_500_RETRIES while the pipeline
\* polls; the response above the threshold that follows MAX_500_RETRIES
\* earlier ones ends the pipeline with None and no exception (from there a
\* pipeline that stays in polling has its counter unchanged, and polling
\* ends without an exception only by giving up), and an ended pipeline sends
\* nothing more.
C5_State ==
    \A i \in Files :
        /\ http_failures[i] <= MAX_500_RETRIES
        /\ plog[i] = LogTooMany => pc[i] = "done" /\ ret[i] = None /\ exc[i] = NoExc
C5_Step ==
    \A i \in Files :
        /\ (pc[i] = "poll" /\ http_failures[i] = MAX_500_RETRIES /\ pc'[i] = "poll")
              => http_failures'[i] = http_failures[i]
        /\ (pc[i] = "poll" /\ pc'[i] = "done" /\ exc'[i] = NoExc)
              => (ret'[i] = None /\ plog'[i] = LogTooMany)
        /\ GivesUp(i) => (pc[i] = "poll" /\ http_failures[i] = MAX_500_RETRIES)
        /\ pc[i] = "done" => (pc'[i] = "done" /\ ret'[i] = ret[i] /\ plog'[i] = plog[i])
C5_RetryBudgetExhausted == [](C5_State) /\ [][C5_Step]_vars
C5_Witness ==
    \E i \in Files : pc[i] = "done" /\ plog[i] = LogTooMany /\ ret[i] = None

\* C6 as stated: a pipeline is given up on only when its responses above
\* the threshold came MAX_500_RETRIES + 1 in a row, never when a response at
\* or below the threshold came between them.
C6_ConsecutiveOnly ==
    [][\A i \in Files : GivesUp(i) => ~mixed[i]]_vars
\* C6 as amended: a pipeline whose responses above the threshold number at
\* most MAX_500_RETRIES in total is not given up on, and it leaves polling
\* for the result request only with a terminal status.
C6_State ==
    \A i \in Files : pc[i] = "fetch" => task[i].task_status \in Terminal
C6_Step ==
    \A i \in Files :
        (pc[i] = "poll" /\ http_failures[i] + 1 <= MAX_500_RETRIES) => plog'[i] # LogTooMany
C6_NotGivenUpWithinBudget == [](C6_State) /\ [][C6_Step]_vars
C6_Witness ==
    \E i \in Files :
        /\ pc[i] = "fetch"
        /\ mixed[i]
        /\ http_failures[i] = MAX_500_RETRIES

\* C7: the result request is issued only for a job whose status is
\* "success"; a job whose status is "failure" never has one in flight.
C7_FetchOnlyOnSuccess ==
    \A i \in Files : pc[i] = "fetch" => task[i].task_status = "success"

\* C8: once process_files has ended, if any pipeline raised then it has
\* raised, not returned, and what it raised is the exception of a pipeline
\* that failed.
C8_ErrorAborts ==
    /\ main = "returned" => Failed = {}
    /\ main \in {"raising", "raised"} =>
         /\ error.index \in Failed
         /\ error.type = exc[error.index]
         /\ mlog = (error.type \in CaughtErrors)
    /\ (main \in {"returned", "raised"} /\ Failed # {}) => main = "raised"
C8_Witness ==
    /\ main = "raised"
    /\ error.type \in CaughtErrors
    /\ \E i \in Files : ret[i].kind = "Data"

\* C9: when process_files has raised, every pipeline handed to the pool has
\* run to its own end (a result or an exception of its own): none is left
\* queued or in flight.
C9_DrainedBeforeRaise ==
    main = "raised" =>
        \A i \in Files : file_list[i] # NoPath =>
            /\ pc[i] = "done"
            /\ (ret[i] # Unset) # (exc[i] # NoExc)
C9_Witness ==
    /\ main = "raised"
    /\ error.index = 1
    /\ N = 2
    /\ pc[2] = "done"
    /\ ret[2].kind = "Data"

\* C10: a pipeline that logged a used-up budget, a missing json_content or a
\* failed validation returned None without raising; process_files never
\* raises on its account, and when it returns, the entry appended for each
\* input is that input's own outcome.
C10_RecoveredLocally ==
    /\ \A i \in Files : plog[i] \in RecoveredLogs =>
         pc[i] = "done" /\ ret[i] = None /\ exc[i] = NoExc
    /\ main \in {"raising", "raised"} => plog[error.index] = NoLog
    /\ main = "returned" =>
         \A n \in 1..Len(origin) : processed_data[n] = Outcome(origin[n])
C10_Witness ==
    /\ main = "returned"
    /\ \E i, q \in Files :
         /\ plog[i] \in RecoveredLogs
         /\ ret[q].kind = "Data"

\* C11: a pipeline's Data record carries the valid document of its own job
\* and the path of its own input; and a result request for a job with status
\* "success" that ends without an exception and without a logged failure
\* yields that record.
C11_State ==
    \A i \in Files : ret[i].kind = "Data" =>
        /\ ret[i].doc = JsonContent(i, TRUE)
        /\ ret[i].file_path = file_list[i]
        /\ file_list[i] # NoPath
        /\ exc[i] = NoExc /\ plog[i] = NoLog
C11_Step ==
    \A i \in Files :
        (/\ pc[i] = "fetch" /\ task[i].task_status = "success"
         /\ pc'[i] = "done" /\ exc'[i] = NoExc /\ plog'[i] = NoLog)
            => ret'[i] = Data(JsonContent(task[i].task_id, TRUE), file_list[i])
C11_ConvertedRecord == [](C11_State) /\ [][C11_Step]_vars
C11_Witness ==
    /\ N = 2
    /\ ret[1] = None
    /\ ret[2].kind = "Data"
    /\ ret[2].file_path = file_list[2]

\* C12: the retry counter is 0 when polling begins; while the call lives it
\* either stays or grows by exactly 1, and a step that takes in a response at
\* or below the threshold (the job is found unfinished, or terminal) leaves
\* it as it is.
C12_Step ==
    \A i \in Files :
        /\ (pc[i] = "submit" /\ pc'[i] \in {"poll", "fetch"}) => http_failures'[i] = 0
        /\ (pc[i] \in {"poll", "fetch"} /\ pc'[i] # "done") =>
              /\ http_failures'[i] \in {http_failures[i], http_failures[i] + 1}
              /\ (waits'[i] # waits[i] \/ pc'[i] # pc[i] \/ task'[i] # task[i]
                  \/ mixed'[i] # mixed[i])
                    => http_failures'[i] = http_failures[i]
C12_State ==
    \A i \in Files :
        /\ http_failures[i] >= 0
        /\ pc[i] \notin {"poll", "fetch"} => http_failures[i] = 0
        /\ mixed[i] => http_failures[i] > 0
C12_CumulativeCounter == [](C12_State) /\ [][C12_Step]_vars
C12_Witness ==
    \E i \in Files :
        /\ pc[i] = "poll"
        /\ mixed[i]
        /\ waits[i] >= 1
        /\ http_failures[i] >= 2

\* C13: a pipeline's requests come in the order submission, polls, result
\* request: a poll follows only the submission or a poll, the result request
\* follows only the submission or a poll and only with a terminal status,
\* and after the result request the pipeline only ends.
C13_Step ==
    \A i \in Files :
        /\ (pc'[i] = "submit" /\ pc[i] # "submit") => pc[i] = "queued"
        /\ (pc'[i] = "poll" /\ pc[i] # "poll") => pc[i] = "submit"
        /\ (pc'[i] = "fetch" /\ pc[i] # "fetch") =>
              (pc[i] \in {"submit", "poll"} /\ task'[i].task_status \in Terminal)
        /\ pc[i] = "fetch" => (pc'[i] \in {"fetch", "done"} /\ task'[i] \in {task[i], NoTask})
        /\ pc[i] = "done" => pc'[i] = "done"
C13_State ==
    \A i \in Files :
        /\ pc[i] = "fetch" => task[i].task_status \in Terminal /\ task[i].task_id = i
        /\ pc[i] = "poll" => task[i].task_status \in NonTerminal /\ task[i].task_id = i
C13_RequestOrder == [](C13_State) /\ [][C13_Step]_vars
C13_Witness ==
    \E i \in Files :
        /\ pc[i] = "fetch"
        /\ waits[i] >= 1

\* The step ends pipeline i.
Ends(i) == pc[i] # "done" /\ pc'[i] = "done"

\* C14, the parts that hold: a pipeline is in submission once, entered from
\* the queue and never again; it polls or fetches only after a 2xx answer to
\* its submission, so a non-2xx answer ends it with no poll and no fetch.
C14_State ==
    \A i \in Files :
        /\ pc[i] \in {"poll", "fetch"} => post_status[i] \in 200..299
        /\ pc[i] \notin {"poll", "fetch"} => post_status[i] = 0
C14_Step ==
    \A i \in Files :
        /\ (pc'[i] = "submit" /\ pc[i] # "submit") => pc[i] = "queued"
        /\ pc[i] \in {"poll", "fetch", "done"} => pc'[i] # "submit"
        /\ (pc[i] = "submit" /\ exc'[i] = "HTTPStatusError") => pc'[i] = "done"
\* C14 as stated: every input with a path causes exactly one submission
\* request, so no pipeline ends without having been in submission.
C14_ExactlyOneSubmission ==
    /\ [](C14_State)
    /\ [][C14_Step /\ \A i \in Files : Ends(i) => pc[i] \in {"submit", "poll", "fetch"}]_vars
\* C14 as amended: at most one submission request per input with a path,
\* and exactly one unless reading the file fails before anything is sent.
C14_AtMostOneSubmission ==
    /\ [](C14_State)
    /\ [][C14_Step /\ \A i \in Files :
            Ends(i) => (pc[i] \in {"submit", "poll", "fetch"} \/ exc'[i] = "OSError")]_vars
C14_Witness ==
    \E i \in Files : pc[i] = "done" /\ exc[i] = "HTTPStatusError"

\* C15: a pipeline is given up on only by the response above the threshold
\* that brings its count to MAX_500_RETRIES + 1; a poll that finds the job
\* unfinished keeps the pipeline polling with its counter as it was, however
\* many such polls came before.
C15_State ==
    \A i \in Files :
        /\ pc[i] = "poll" => (plog[i] = NoLog /\ exc[i] = NoExc /\ ret[i] = Unset)
        /\ plog[i] = LogTooMany => ret[i] = None
C15_Step ==
    \A i \in Files :
        /\ GivesUp(i) => http_failures[i] + 1 = MAX_500_RETRIES + 1
        /\ (pc[i] = "poll" /\ waits'[i] > waits[i]) =>
              /\ pc'[i] = "poll"
              /\ http_failures'[i] = http_failures[i]
C15_OnlyBudgetGivesUp == [](C15_State) /\ [][C15_Step]_vars
C15_Witness ==
    \E i \in Files :
        /\ pc[i] = "poll"
        /\ waits[i] = MaxPending
        /\ http_failures[i] = 0

\* C16 as stated: after a successful submission the pipeline polls at least
\* once before any result request: it never goes from the submission
\* straight to the result request.
C16_AlwaysPolls ==
    [][\A i \in Files : pc[i] = "submit" => pc'[i] # "fetch"]_vars
\* C16 as amended: after a successful submission the pipeline enters polling
\* when the answer reports a non-terminal status, and goes straight to the
\* result request when the answer already reports a terminal one.
C16_Step ==
    \A i \in Files :
        (pc[i] = "submit" /\ pc'[i] \notin {"submit", "done"}) =>
            /\ task'[i].task_status \in Statuses
            /\ pc'[i] = (IF task'[i].task_status \in Terminal THEN "fetch" ELSE "poll")
C16_PollsUnlessTerminal == [][C16_Step]_vars
C16_Witness ==
    \E i \in Files :
        /\ pc[i] = "poll"
        /\ post_status[i] = 200
        /\ waits[i] = 0
        /\ http_failures[i] = 0

\* C17: a response above the threshold that does not use up the budget
\* changes nothing of the pipeline but the counter: task (status and id) is
\* as it was and the pipeline is still polling.
C17_Step ==
    \A i \in Files :
        (pc[i] = "poll" /\ pc'[i] # "done" /\ http_failures'[i] # http_failures[i]) =>
            /\ task'[i] = task[i]
            /\ pc'[i] = "poll"
            /\ waits'[i] = waits[i]
            /\ ret'[i] = ret[i] /\ exc'[i] = exc[i] /\ plog'[i] = plog[i]
C17_State ==
    \A i \in Files : pc[i] = "poll" => task[i] = TaskBody(i, "pending")
C17_RetryKeepsTask == [](C17_State) /\ [][C17_Step]_vars
C17_Witness ==
    \E i \in Files :
        /\ pc[i] = "poll"
        /\ http_failures[i] >= 1
        /\ task[i] = TaskBody(i, "pending")

\* C18: under fair scheduling, with every job's polling ending (the model
\* bounds it), process_files eventually returns or raises, and by then every
\* pipeline handed to the pool, queued ones included, has started and ended.
C18_Ended ==
    /\ main \in {"returned", "raised"}
    /\ \A i \in Files : file_list[i] # NoPath => pc[i] = "done"
C18_Terminates == <>C18_Ended
C18_Witness ==
    /\ C18_Ended
    /\ N >= 2
    /\ max_concurrency = 1
    /\ \A i \in Files : file_list[i] # NoPath

\* The inputs whose entry has been appended to processed_data.
Collected == {origin[n] : n \in 1..Len(origin)}
WithPath == {i \in Files : file_list[i] # NoPath}

\* C19: the exception process_files raises is that of the failed pipeline
\* with the smallest input index, whichever failed first; the results of all
\* pipelines before it were collected and none after it ever is.
C19_FirstFailedInOrder ==
    main \in {"raising", "raised"} =>
        /\ error.index \in WithPath
        /\ \A i \in Failed : error.index <= i
        /\ error.type = exc[error.index]
        /\ Collected \cap WithPath = {i \in WithPath : i < error.index}
C19_Witness ==
    /\ main = "raised"
    /\ error.index = 1
    /\ Failed = {1, 2}
    /\ exc[1] # exc[2]

\* C20: the entries of the inputs with a path stand in processed_data in the
\* order of those inputs in file_list, each holding its own pipeline's
\* result, for every order in which the pipelines complete.
C20_RelativeOrder ==
    /\ \A m, n \in 1..Len(origin) :
         (m < n /\ origin[m] \in WithPath /\ origin[n] \in WithPath) => origin[m] < origin[n]
    /\ \A n \in 1..Len(origin) :
         origin[n] \in WithPath =>
            (Len(processed_data) >= n /\ processed_data[n] = ret[origin[n]])
    /\ main = "returned" => WithPath \subseteq Collected
C20_Witness ==
    /\ main = "returned"
    /\ N = 2
    /\ WithPath = {1, 2}
    /\ ret[1] = None
    /\ ret[2].kind = "Data"
    /\ processed_data = <<ret[1], ret[2]>>

====
